---- MODULE Spec2Model ----
(***************************************************************************)
(* A model of the dataset manager (src/src/datasets.py: get, read) and of  *)
(* the two plotting utilities with a file contract (src/src/plot.py:       *)
(* roc_curve, embed_umap).  The state is the part of the filesystem the    *)
(* functions touch, plus a record of the last call (its arguments, what it *)
(* did and what it returned or raised).                                    *)
(***************************************************************************)
EXTENDS Integers, Sequences, FiniteSets, TLC

VARIABLES
    dataDir,     \* whether DATA_DIR exists
    matFile,     \* <DATA_DIR>/<dataset>.mat, per dataset
    npyFile,     \* <DATA_DIR>/<dataset>.npy, per dataset
    labelsFile,  \* <DATA_DIR>/<dataset>_labels.npy, per dataset
    call,        \* the last call of get or read
    embFile,     \* the embedding files of embed_umap, per file name
    embRet,      \* what embed_umap last returned, per file name
    plotDir,     \* the method directories that exist
    rocCsv,      \* roc.csv, per method directory
    rocPng,      \* the <depth>-roc.png files written
    rocHist,     \* the depths of the roc_curve calls that returned, per directory
    rocCalls,    \* the number of roc_curve calls made
    plotCall     \* the last call of roc_curve or embed_umap

dataVars == <<dataDir, matFile, npyFile, labelsFile, call>>

umapVars == <<embFile, embRet>>

rocVars == <<plotDir, rocCsv, rocPng, rocHist, rocCalls>>

plotVars == <<umapVars, rocVars, plotCall>>

vars == <<dataVars, plotVars>>

(***************************************************************************)
(* Bounds of the model.                                                    *)
(***************************************************************************)
\* The largest number of rows of a raw dataset file.
MaxRows == 3

\* The largest number of roc_curve calls in one run (roc.csv only grows).
MaxRocCalls == 3

\* The largest number of rows of the data handed to embed_umap.
MaxEmbRows == 2

(***************************************************************************)
(* The dataset registry.                                                   *)
(***************************************************************************)
\* The keys of DATASET_LINKS; each key has exactly one URL.
DATASET_LINKS ==
    {"annthyroid", "arrhythmia", "breastw", "cardio", "cover", "glass",
     "http", "ionosphere", "lympho", "mammography", "mnist", "musk",
     "optdigits", "pendigits", "pima", "satellite", "satimage-2", "shuttle",
     "smtp", "thyroid", "vertebral", "vowels", "wbc", "wine"}

OTHER_DATASETS ==
    {"backdoor", "campaign", "celeba", "census", "donors", "fraud",
     "thyroid-21"}

\* The dataset names the calls of the model are made with: a downloadable
\* name, a name of the no-download list and a name of neither.
DatasetArgs == {"wine", "fraud", "nosuch"}

(***************************************************************************)
(* Files and arrays.                                                       *)
(***************************************************************************)
\* A path with no file behind it (os.path.exists is False).
NoFile == [exists |-> FALSE]

Exists(f) == f.exists

\* The values a raw label can take: 0 (inlier), 1 (outlier), and one value
\* that is neither.
LabelValues == {0, 1, 2}

LabelSeqs == UNION {[1..n -> LabelValues] : n \in 0..MaxRows}

\* An array: its shape and its values in row-major order.
Array(shape, vals) == [shape |-> shape, vals |-> vals]

\* The raw files wget can leave behind: an unreadable file (an empty file,
\* an HTML page), or a matrix file in the legacy format ("mat") or in the
\* hierarchical format ("hdf5") holding X and y, or only one of them.  The
\* rows of X are named by their index, 1..Len(y).
RawFiles ==
    {[exists |-> TRUE, fmt |-> "bad", keys |-> {}, y |-> <<>>]}
    \cup {[exists |-> TRUE, fmt |-> f, keys |-> {"X", "y"}, y |-> ys] :
             f \in {"mat", "hdf5"}, ys \in LabelSeqs}
    \cup {[exists |-> TRUE, fmt |-> f, keys |-> k, y |-> <<0, 1>>] :
             f \in {"mat", "hdf5"}, k \in {{"X"}, {"y"}}}

\* What the fetch command does when it is run: the executable is missing
\* (subprocess.run raises), it runs and leaves no file, or it leaves a file.
NoWget == [exists |-> FALSE, ran |-> FALSE]

FetchOutcomes == {NoWget, NoFile} \cup RawFiles

Transpose(a) == Array(<<a.shape[2], a.shape[1]>>, a.vals)

\* np.asarray(_, dtype=np.uint8) on the values of an array.
AsUint8(a) == Array(a.shape, [k \in 1..Len(a.vals) |-> a.vals[k] % 256])

\* scipy's loadmat: every matrix comes back two-dimensional, y as a column.
loadmat(raw) ==
    [X |-> IF "X" \in raw.keys THEN [k \in 1..Len(raw.y) |-> k] ELSE <<>>,
     y |-> IF "y" \in raw.keys THEN Array(<<Len(raw.y), 1>>, raw.y)
                               ELSE Array(<<0, 1>>, <<>>),
     keys |-> raw.keys]

\* The hierarchical file stores each matrix transposed; the fallback reader
\* keeps the keys X and y and transposes them back.
h5read(raw) ==
    LET stored == Array(<<1, Len(raw.y)>>, raw.y)
    IN [X |-> IF "X" \in raw.keys THEN [k \in 1..Len(raw.y) |-> k] ELSE <<>>,
        y |-> IF "y" \in raw.keys THEN Transpose(stored)
                                  ELSE Array(<<0, 1>>, <<>>),
        keys |-> raw.keys \cap {"X", "y"}]

\* The parse with its fallback: the primary parser, then the secondary one
\* for the files the primary cannot read; an unreadable file raises.
ParseRaw(raw) ==
    IF raw.fmt = "mat" THEN [ok |-> TRUE, dict |-> loadmat(raw)]
    ELSE IF raw.fmt = "hdf5" THEN [ok |-> TRUE, dict |-> h5read(raw)]
    ELSE [ok |-> FALSE, dict |-> loadmat(raw)]

\* A cache file written by np.save.
Saved(content) == [exists |-> TRUE, content |-> content]

(***************************************************************************)
(* get(dataset).                                                           *)
(***************************************************************************)
FS == [dir |-> dataDir, mat |-> matFile, npy |-> npyFile, lab |-> labelsFile]

\* Variants of the lookup: one that never raises, and one over the names of
\* both lists.
LookupFailsNever(dataset) == FALSE

LookupFailsOutsideNames(dataset) ==
    dataset \notin (DATASET_LINKS \cup OTHER_DATASETS)

\* link = DATASET_LINKS[dataset]: raises KeyError for a name that is no key.
LookupFails(dataset) == dataset \notin DATASET_LINKS

\* A variant that fetches whether or not the raw file exists.
FetchAlways(fs, dataset) == TRUE

\* if not os.path.exists(filename): run the fetch command.
FetchNeeded(fs, dataset) == ~Exists(fs.mat[dataset])

\* The result of a get that raises: the filesystem as it is left, the
\* exception, and the steps that ran.
Raised(fs, exc, steps, wrote) ==
    [fs |-> fs, exc |-> exc, steps |-> steps, wrote |-> wrote]

\* Lines 106-119: parse the raw file and save the two caches, the features
\* first.  A missing X raises before anything is written, a missing y after
\* the features were written.
ConvertAndSave(fs, dataset, steps, wrote) ==
    LET p == ParseRaw(fs.mat[dataset])
        s1 == steps \cup {"parse"}
        fsX == [fs EXCEPT !.npy[dataset] = Saved(p.dict.X)]
        fsY == [fsX EXCEPT !.lab[dataset] = Saved(AsUint8(p.dict.y))]
    IN IF ~p.ok THEN Raised(fs, "ReadError", s1, wrote)
       ELSE IF "X" \notin p.dict.keys THEN Raised(fs, "KeyError:X", s1, wrote)
       ELSE IF "y" \notin p.dict.keys
            THEN Raised(fsX, "KeyError:y", s1 \cup {"save_data"},
                        wrote \cup {"npy"})
       ELSE Raised(fsY, "none", s1 \cup {"save_data", "save_labels"},
                   wrote \cup {"npy", "labels"})

\* get(dataset), with `fetch` what the fetch command does if it is run.
Get(fs, dataset, fetch) ==
    IF LookupFails(dataset) THEN Raised(fs, "KeyError:dataset", {"lookup"}, {})
    ELSE
    LET fs1 == [fs EXCEPT !.dir = TRUE]
        s1 == {"lookup"} \cup (IF fs.dir THEN {} ELSE {"makedirs"})
        need == FetchNeeded(fs1, dataset)
        s2 == s1 \cup (IF need THEN {"fetch"} ELSE {})
        fs2 == IF need /\ Exists(fetch)
               THEN [fs1 EXCEPT !.mat[dataset] = fetch] ELSE fs1
        w2 == IF need /\ Exists(fetch) THEN {"mat"} ELSE {}
    IN IF need /\ fetch = NoWget
       THEN Raised(fs1, "FileNotFoundError:wget", s2, {})
       ELSE IF ~Exists(fs2.mat[dataset])
       THEN Raised(fs2, "ValueError:could_not_get", s2, w2)
       ELSE IF dataset \in DATASET_LINKS
       THEN ConvertAndSave(fs2, dataset, s2, w2)
       ELSE IF dataset \notin OTHER_DATASETS
       THEN Raised(fs2, "ValueError:not_found", s2 \cup {"not_found"}, w2)
       ELSE Raised(fs2, "none", s2 \cup {"other_return"}, w2)

(***************************************************************************)
(* The files of the plotting utilities.                                    *)
(***************************************************************************)
EmbFiles == {"a.umap", "b.umap"}

PlotDirs == {"wine/l2/chaoda", "wine/l1/chaoda"}

\* The dict of anomalousness scores of a roc_curve call, as its items in
\* insertion order (each <<key, score>>); the last one is empty.
AnomalyDicts == {<< <<1, 1>> >>, << <<2, 0>>, <<1, 1>> >>, << >>}

RocDepths == {1, 2}

NComponents == {2, 3}

\* The embeddings UMAP may compute for the same data (it is stochastic).
UmapSeeds == {1, 2}

\* What embed_umap returns: nothing (it raised), or the mapped array.
NoEmbRet == [returned |-> FALSE, shape |-> <<0, 0>>, vals |-> <<>>]

NoPlotCall ==
    [op |-> "none", file |-> "", dir |-> "", depth |-> 0, save |-> FALSE,
     shape |-> <<0, 0>>, exc |-> "none", entryFile |-> NoFile,
     computed |-> FALSE, wrote |-> {}, prevRet |-> NoEmbRet, ret |-> NoEmbRet]

(***************************************************************************)
(* The record of the last call of the dataset manager.                     *)
(***************************************************************************)
\* Which files exist as a call starts.
Entry(fs, dataset) ==
    [dir |-> fs.dir, mat |-> Exists(fs.mat[dataset]),
     npy |-> Exists(fs.npy[dataset]), lab |-> Exists(fs.lab[dataset])]

NoArray == Array(<<0>>, <<>>)

\* What a read has loaded and asked of the sampler: the rows loaded, the
\* label cache as loaded, whether it subsampled, the numbers of outlier and
\* inlier indices it requested and the numbers there are.
NoLoad ==
    [loaded |-> FALSE, n |-> 0, cache |-> NoArray, sampled |-> FALSE,
     reqOut |-> 0, reqIn |-> 0, availOut |-> 0, availIn |-> 0]

\* What a read returns: the feature rows (each named by its row in the
\* cache) with the normalization applied, and the label array.
NoReturn ==
    [returned |-> FALSE, rows |-> <<>>, norm |-> "None", labels |-> NoArray]

NoCall ==
    [op |-> "none", dataset |-> "", mode |-> "None", subsample |-> <<>>,
     exc |-> "none", steps |-> {}, wrote |-> {}, gotCalled |-> FALSE,
     entry |-> [dir |-> FALSE, mat |-> FALSE, npy |-> FALSE, lab |-> FALSE],
     load |-> NoLoad, ret |-> NoReturn]

Init ==
    /\ dataDir = FALSE
    /\ matFile = [d \in DatasetArgs |-> NoFile]
    /\ npyFile = [d \in DatasetArgs |-> NoFile]
    /\ labelsFile = [d \in DatasetArgs |-> NoFile]
    /\ call = NoCall
    /\ embFile = [f \in EmbFiles |-> NoFile]
    /\ embRet = [f \in EmbFiles |-> NoEmbRet]
    /\ plotDir = {}
    /\ rocCsv = [d \in PlotDirs |-> NoFile]
    /\ rocPng = {}
    /\ rocHist = [d \in PlotDirs |-> <<>>]
    /\ rocCalls = 0
    /\ plotCall = NoPlotCall

\* What the fetch command can do in a get of `dataset`: one of its outcomes
\* where get runs it, and nothing to choose where get does not.
FetchChoices(fs, dataset) ==
    IF ~LookupFails(dataset) /\ FetchNeeded(fs, dataset)
    THEN FetchOutcomes ELSE {NoFile}

\* The filesystem after a call.
SetFS(fs) ==
    /\ dataDir' = fs.dir
    /\ matFile' = fs.mat
    /\ npyFile' = fs.npy
    /\ labelsFile' = fs.lab

\* A call of get(dataset).
GetCall ==
    \E dataset \in DatasetArgs :
      \E fetch \in FetchChoices(FS, dataset) :
        LET g == Get(FS, dataset, fetch)
        IN /\ SetFS(g.fs)
           /\ call' = [NoCall EXCEPT !.op = "get", !.dataset = dataset,
                          !.exc = g.exc, !.steps = g.steps, !.wrote = g.wrote,
                          !.entry = Entry(FS, dataset)]
           /\ UNCHANGED plotVars

(***************************************************************************)
(* read(dataset, normalization_mode, subsample).                           *)
(***************************************************************************)
NormalizationModes == {"None", "linear"}

\* subsample: None (<<>>) or an integer (<<s>>).
Subsamples == {<<>>} \cup {<<s>> : s \in 0..(MaxRows + 1)}

\* A variant that calls get on every read.
ReadAlwaysGets(fs, dataset) == TRUE

\* if not os.path.exists(data_path): get(dataset)
ReadNeedsGet(fs, dataset) == ~Exists(fs.npy[dataset])

\* [i for i, j in enumerate(labels) if j == v], on a column of labels.
IndicesOf(labels, v) ==
    SelectSeq([k \in 1..Len(labels.vals) |-> k], LAMBDA k : labels.vals[k] = v)

\* int(subsample * (len(outliers) / data.shape[0])).  The quotient and the
\* product are floating point; for fewer than 44 rows the truncated result
\* is the exact floor, and beyond it is the floor or one less, never more.
OutlierRequest(s, o, n) == (s * o) \div n

\* 1 + int(subsample * (len(inliers) / data.shape[0]))
InlierRequest(s, i, n) == 1 + (s * i) \div n

Range(q) == {q[k] : k \in 1..Len(q)}

\* np.random.choice(population, k, replace=False): the draws it can return,
\* none when it raises (k above the population, or k > 0 of nothing).
Choice(population, k) ==
    {q \in [1..k -> Range(population)] :
        \A a, b \in 1..k : a # b => q[a] # q[b]}

\* labels[samples] on a column of labels.
TakeRows(labels, samples) ==
    Array(<<Len(samples), 1>>, [j \in 1..Len(samples) |-> labels.vals[samples[j]]])

\* np.squeeze: the axes of length 1 are dropped.
Squeeze(a) == Array(SelectSeq(a.shape, LAMBDA d : d # 1), a.vals)

\* The return statement: float32 features, squeezed uint8 labels.
Returned(rows, labels, mode) ==
    [returned |-> TRUE, rows |-> rows, norm |-> mode,
     labels |-> AsUint8(Squeeze(labels))]

\* A call of read.
ReadCall ==
    \E dataset \in DatasetArgs, mode \in NormalizationModes,
       subsample \in Subsamples :
      \E fetch \in (IF ReadNeedsGet(FS, dataset)
                    THEN FetchChoices(FS, dataset) ELSE {NoFile}) :
        LET need == ReadNeedsGet(FS, dataset)
            g == IF need THEN Get(FS, dataset, fetch)
                 ELSE Raised(FS, "none", {}, {})
            base == [NoCall EXCEPT !.op = "read", !.dataset = dataset,
                        !.mode = mode, !.subsample = subsample,
                        !.steps = g.steps, !.wrote = g.wrote,
                        !.gotCalled = need, !.entry = Entry(FS, dataset)]
        IN
        /\ SetFS(g.fs)
        /\ UNCHANGED plotVars
        /\ IF g.exc # "none" THEN call' = [base EXCEPT !.exc = g.exc]
           ELSE IF ~Exists(g.fs.lab[dataset])
           THEN call' = [base EXCEPT !.exc = "FileNotFoundError:labels"]
           ELSE
           LET data == g.fs.npy[dataset].content
               labels == g.fs.lab[dataset].content
               n == Len(data)
               outliers == IndicesOf(labels, 1)
               inliers == IndicesOf(labels, 0)
               all == [NoLoad EXCEPT !.loaded = TRUE, !.n = n, !.cache = labels]
           IN
           IF subsample # <<>> /\ subsample[1] < n
           THEN
             LET kOut == OutlierRequest(subsample[1], Len(outliers), n)
                 kIn == InlierRequest(subsample[1], Len(inliers), n)
                 ld == [all EXCEPT !.sampled = TRUE,
                           !.reqOut = kOut, !.reqIn = kIn,
                           !.availOut = Len(outliers), !.availIn = Len(inliers)]
             IN IF Choice(outliers, kOut) = {} \/ Choice(inliers, kIn) = {}
                THEN call' = [base EXCEPT !.exc = "ValueError:choice", !.load = ld]
                ELSE \E so \in Choice(outliers, kOut), si \in Choice(inliers, kIn) :
                       LET samples == so \o si
                       IN call' = [base EXCEPT !.load = ld,
                                      !.ret = Returned([j \in 1..Len(samples) |-> data[samples[j]]],
                                                       TakeRows(labels, samples), mode)]
           ELSE call' = [base EXCEPT !.load = all,
                            !.ret = Returned(data, labels, mode)]

DataNext == GetCall \/ ReadCall

Spec == Init /\ [][DataNext]_vars

(***************************************************************************)
(* roc_curve(true_labels, anomalies, dataset, metric, method, depth, save) *)
(***************************************************************************)
\* The header line of roc.csv.
CsvHeader == [text |-> "depth,scores"]

CsvFile(lines) == [exists |-> TRUE, lines |-> lines]

\* sorted(list(anomalies.items())): by key (the keys of a dict differ).
RECURSIVE SortItems(_)
SortItems(items) ==
    IF items = <<>> THEN <<>>
    ELSE LET least == CHOOSE k \in 1..Len(items) :
                          \A j \in 1..Len(items) : items[k][1] <= items[j][1]
         IN <<items[least]>> \o
            SortItems([j \in 1..(Len(items) - 1) |->
                          IF j < least THEN items[j] ELSE items[j + 1]])

\* The line f'{depth},{line}\n': the depth, then the scores in key order.
CsvRow(depth, anomalies) ==
    LET sorted == SortItems(anomalies)
    IN [depth |-> depth, scores |-> [j \in 1..Len(sorted) |-> sorted[j][2]]]

\* metrics.roc_curve raises on no sample at all.
MetricsRaise(anomalies) == anomalies = <<>>

\* A variant that logs to roc.csv only under save.
RocCsvOnlyWhenSaved(f, depth, anomalies, save) ==
    IF ~save THEN f
    ELSE CsvFile(Append((IF Exists(f) THEN f.lines ELSE <<CsvHeader>>),
                        CsvRow(depth, anomalies)))

\* Lines 70-76: write the header if roc.csv does not exist, then append.
RocCsvAfter(f, depth, anomalies, save) ==
    LET g == IF ~Exists(f) THEN CsvFile(<<CsvHeader>>) ELSE f
    IN CsvFile(Append(g.lines, CsvRow(depth, anomalies)))

RocCurveCall ==
    /\ rocCalls < MaxRocCalls
    /\ \E dir \in PlotDirs, depth \in RocDepths, save \in BOOLEAN,
          anomalies \in AnomalyDicts :
        LET base == [NoPlotCall EXCEPT !.op = "roc_curve", !.dir = dir,
                        !.depth = depth, !.save = save,
                        !.entryFile = rocCsv[dir]]
        IN
        /\ rocCalls' = rocCalls + 1
        /\ UNCHANGED <<dataVars, umapVars>>
        /\ IF MetricsRaise(anomalies)
           THEN /\ plotCall' = [base EXCEPT !.exc = "ValueError:roc_curve"]
                /\ UNCHANGED <<plotDir, rocCsv, rocPng, rocHist>>
           ELSE /\ plotDir' = plotDir \cup {dir}
                /\ rocPng' = IF save THEN rocPng \cup {<<dir, depth>>}
                             ELSE rocPng
                /\ rocCsv' = [rocCsv EXCEPT
                                 ![dir] = RocCsvAfter(@, depth, anomalies, save)]
                /\ rocHist' = [rocHist EXCEPT ![dir] = Append(@, depth)]
                /\ plotCall' =
                       [base EXCEPT !.wrote =
                           (IF save THEN {"png"} ELSE {}) \cup
                           (IF Exists(rocCsv[dir]) THEN {} ELSE {"csv_header"})
                           \cup {"csv_row"}]

RocSpec == Init /\ [][RocCurveCall]_vars

(***************************************************************************)
(* embed_umap(data, n_neighbors, n_components, metric, filename)           *)
(***************************************************************************)
\* umap.UMAP(...).fit_transform(data): a rows x n_components matrix; which
\* one depends on the run (`seed`).
UmapFit(seed, rows, nc) ==
    Array(<<rows, nc>>, [k \in 1..(rows * nc) |-> <<seed, k>>])

\* A variant that recomputes the embedding on every call.
EmbedAlwaysFits(f) == TRUE

\* if not os.path.exists(filename)
EmbedNeedsFit(f) == ~Exists(f)

\* np.memmap(mode='w+', shape) filled with the embedding: the file holds
\* the float32 elements of the matrix, and no shape.
MemmapWrite(embedding) == [exists |-> TRUE, elems |-> embedding.vals]

\* np.memmap(mode='r', shape): the leading rows * n_components elements of
\* the file under the requested shape; a shorter file cannot be mapped.
MemmapRead(f, rows, nc) ==
    IF Len(f.elems) < rows * nc THEN NoEmbRet
    ELSE [returned |-> TRUE, shape |-> <<rows, nc>>,
          vals |-> SubSeq(f.elems, 1, rows * nc)]

EmbedUmapCall ==
    \E file \in EmbFiles, rows \in 1..MaxEmbRows, nc \in NComponents :
      \E seed \in (IF EmbedNeedsFit(embFile[file]) THEN UmapSeeds ELSE {1}) :
        LET fit == EmbedNeedsFit(embFile[file])
            f == IF fit THEN MemmapWrite(UmapFit(seed, rows, nc))
                 ELSE embFile[file]
            r == MemmapRead(f, rows, nc)
        IN
        /\ embFile' = [embFile EXCEPT ![file] = f]
        /\ embRet' = IF r.returned THEN [embRet EXCEPT ![file] = r] ELSE embRet
        /\ plotCall' = [NoPlotCall EXCEPT !.op = "embed_umap", !.file = file,
                           !.shape = <<rows, nc>>,
                           !.exc = IF r.returned THEN "none" ELSE "ValueError:mmap",
                           !.entryFile = embFile[file], !.computed = fit,
                           !.wrote = IF fit THEN {"embedding"} ELSE {},
                           !.prevRet = embRet[file], !.ret = r]
        /\ UNCHANGED <<dataVars, rocVars>>

UmapSpec == Init /\ [][EmbedUmapCall]_vars

(***************************************************************************)
(* The properties.                                                         *)
(***************************************************************************)
\* The last call ran get: it was get, or a read that called get.
RanGet == call.op = "get" \/ (call.op = "read" /\ call.gotCalled)

\* C1: for a name that is no key of DATASET_LINKS, get, and read with no
\* cache file present, end in the lookup error (KeyError), and none of
\* <name>.mat, <name>.npy, <name>_labels.npy exists afterwards unless it
\* existed before the call.
C1_UnknownNameRaises ==
    (/\ call.op \in {"get", "read"}
     /\ call.dataset \notin DATASET_LINKS
     /\ call.op = "read" => (~call.entry.npy /\ ~call.entry.lab))
    => /\ call.exc = "KeyError:dataset"
       /\ Exists(matFile[call.dataset]) => call.entry.mat
       /\ Exists(npyFile[call.dataset]) => call.entry.npy
       /\ Exists(labelsFile[call.dataset]) => call.entry.lab

C1_Witness ==
    /\ call.op = "read"
    /\ call.dataset = "nosuch"
    /\ call.gotCalled
    /\ call.exc = "KeyError:dataset"
    /\ ~Exists(npyFile["nosuch"])

\* C2: a read that subsamples requests at most as many outlier indices as
\* there are rows labelled 1 and at most as many inlier indices as there
\* are rows labelled 0.
C2_RequestWithinClass ==
    (call.op = "read" /\ call.load.sampled)
    => /\ call.load.reqOut <= call.load.availOut
       /\ call.load.reqIn <= call.load.availIn

\* Every label of the array is 0 or 1.
Binary(a) == \A k \in 1..Len(a.vals) : a.vals[k] \in {0, 1}

\* C3: on a cache of n rows whose labels are all 0 or 1, read with
\* 0 <= subsample < n returns a number of rows within 1 of subsample, and
\* read with subsample None or >= n returns all n rows.
C3_TotalWithinRounding ==
    (call.op = "read" /\ call.load.loaded /\ Binary(call.load.cache))
    => /\ call.ret.returned
       /\ IF call.subsample # <<>> /\ call.subsample[1] < call.load.n
          THEN /\ Len(call.ret.rows) - call.subsample[1] <= 1
               /\ call.subsample[1] - Len(call.ret.rows) <= 1
          ELSE Len(call.ret.rows) = call.load.n

\* C4: for a name of the registry whose caches get has produced, read
\* returns features and a label vector with the same number of rows, each
\* label being the cached label of the row of the feature at its position.
C4_LabelsMatchFeatures ==
    (call.op = "read" /\ call.dataset \in DATASET_LINKS /\ call.load.loaded)
    => /\ call.ret.returned
       /\ call.ret.labels.shape = <<Len(call.ret.rows)>>
       /\ Len(call.ret.labels.vals) = Len(call.ret.rows)
       /\ \A j \in 1..Len(call.ret.rows) :
             call.ret.labels.vals[j] = call.load.cache.vals[call.ret.rows[j]]

\* C5, as stated: a get or read that finds both cache files writes neither.
C5_NoRewrite ==
    (call.op \in {"get", "read"} /\ call.entry.npy /\ call.entry.lab)
    => ("npy" \notin call.wrote /\ "labels" \notin call.wrote)

\* C5, amended: once both cache files of a dataset exist, no call changes
\* the contents of either (a later get writes them again, with the contents
\* they have), and a read of the dataset writes nothing.
C5_ContentsImmutable ==
    [][\A d \in DatasetArgs :
          (Exists(npyFile[d]) /\ Exists(labelsFile[d]))
          => /\ npyFile'[d] = npyFile[d]
             /\ labelsFile'[d] = labelsFile[d]
             /\ (call'.op = "read" /\ call'.dataset = d) => call'.wrote = {}]_vars

C5_Witness ==
    /\ call.op = "get"
    /\ call.entry.npy /\ call.entry.lab
    /\ call.wrote = {"npy", "labels"}
    /\ call.exc = "none"

\* The number of elements the requested shape of the last embed_umap asks.
Asked == plotCall.shape[1] * plotCall.shape[2]

\* C6, as stated: whenever the file exists on entry, embed_umap computes
\* nothing, leaves the file unchanged and returns its contents.
C6_ReturnsContents ==
    (plotCall.op = "embed_umap" /\ Exists(plotCall.entryFile))
    => /\ ~plotCall.computed
       /\ plotCall.wrote = {}
       /\ embFile[plotCall.file] = plotCall.entryFile
       /\ plotCall.ret.returned
       /\ plotCall.ret.vals = plotCall.entryFile.elems

\* C6, amended: whenever the file exists on entry, embed_umap computes
\* nothing and leaves the file unchanged; it returns the leading
\* rows * n_components elements of the file under the requested shape (all
\* of the file when the shape asks for as many elements as it holds) and
\* raises when the file holds fewer; and a call with the file and shape of
\* the call before it on that file returns the array that call returned.
C6_CacheHit ==
    (plotCall.op = "embed_umap" /\ Exists(plotCall.entryFile))
    => /\ ~plotCall.computed
       /\ plotCall.wrote = {}
       /\ embFile[plotCall.file] = plotCall.entryFile
       /\ plotCall.ret.returned <=> Asked <= Len(plotCall.entryFile.elems)
       /\ plotCall.ret.returned =>
             /\ plotCall.ret.shape = plotCall.shape
             /\ plotCall.ret.vals = SubSeq(plotCall.entryFile.elems, 1, Asked)
       /\ Asked = Len(plotCall.entryFile.elems) =>
             plotCall.ret.vals = plotCall.entryFile.elems
       /\ (plotCall.prevRet.returned /\ plotCall.prevRet.shape = plotCall.shape)
             => plotCall.ret = plotCall.prevRet

C6_Witness ==
    /\ plotCall.op = "embed_umap"
    /\ Exists(plotCall.entryFile)
    /\ plotCall.prevRet.returned
    /\ plotCall.prevRet.shape = plotCall.shape
    /\ plotCall.ret.returned
    /\ plotCall.ret.vals = plotCall.entryFile.elems

\* roc.csv of a directory is the header followed by one row per returned
\* call for the directory, in call order, each beginning with its depth.
RocCsvShape(d) ==
    IF rocHist[d] = <<>> THEN ~Exists(rocCsv[d])
    ELSE /\ Exists(rocCsv[d])
         /\ Len(rocCsv[d].lines) = 1 + Len(rocHist[d])
         /\ rocCsv[d].lines[1] = CsvHeader
         /\ \A j \in 1..Len(rocHist[d]) :
               /\ rocCsv[d].lines[j + 1] # CsvHeader
               /\ rocCsv[d].lines[j + 1].depth = rocHist[d][j]

\* A roc_curve call that returns adds exactly one line after the lines
\* roc.csv had, the header apart, whatever save is.
RocCsvAppends(d) ==
    IF Exists(rocCsv[d])
    THEN /\ Exists(rocCsv'[d])
         /\ Len(rocCsv'[d].lines) <= Len(rocCsv[d].lines) + 1
         /\ SubSeq(rocCsv'[d].lines, 1, Len(rocCsv[d].lines)) = rocCsv[d].lines
         /\ (plotCall'.dir = d /\ plotCall'.exc = "none")
               => Len(rocCsv'[d].lines) = Len(rocCsv[d].lines) + 1
    ELSE (plotCall'.dir = d /\ plotCall'.exc = "none")
            => (Exists(rocCsv'[d]) /\ Len(rocCsv'[d].lines) = 2)

\* C7: after k >= 1 roc_curve calls for a directory, starting from no file,
\* roc.csv is the header line followed by exactly k rows in call order, row
\* j beginning with the depth of call j, whatever save was; and no call
\* changes or removes a line written earlier.
C7_RocCsvAppendOnly ==
    /\ [](\A d \in PlotDirs : RocCsvShape(d))
    /\ [][\A d \in PlotDirs : RocCsvAppends(d)]_vars

C7_Witness ==
    /\ plotCall.op = "roc_curve"
    /\ plotCall.exc = "none"
    /\ ~plotCall.save
    /\ Len(rocHist[plotCall.dir]) = 3
    /\ rocHist[plotCall.dir][1] # rocHist[plotCall.dir][2]
    /\ Len(rocCsv[plotCall.dir].lines) = 4

\* C8: a read that finds the feature cache or the label cache absent calls
\* get before it loads.
C8_ReadCallsGetIfEitherMissing ==
    (call.op = "read" /\ (~call.entry.npy \/ ~call.entry.lab))
    => call.gotCalled

\* C9: for a downloadable name, get runs the fetch only if the raw file is
\* absent on entry; if the raw file is absent after the fetch attempt, it
\* raises without writing a cache file; and it writes a cache file only
\* with the raw file in place.
C9_FetchOnlyIfAbsent ==
    (RanGet /\ call.dataset \in DATASET_LINKS)
    => /\ "fetch" \in call.steps => ~call.entry.mat
       /\ ~Exists(matFile[call.dataset]) =>
             /\ call.exc \in {"ValueError:could_not_get", "FileNotFoundError:wget"}
             /\ call.wrote = {}
             /\ Exists(npyFile[call.dataset]) => call.entry.npy
             /\ Exists(labelsFile[call.dataset]) => call.entry.lab
       /\ (call.wrote \cap {"npy", "labels"} # {}) =>
             Exists(matFile[call.dataset])

C9_Witness ==
    /\ call.op = "get"
    /\ call.dataset \in DATASET_LINKS
    /\ "fetch" \in call.steps
    /\ ~Exists(matFile[call.dataset])
    /\ call.exc = "ValueError:could_not_get"

\* C10: a name that is no key of DATASET_LINKS, a name of OTHER_DATASETS
\* included, fails at the URL lookup, the first step of get, before
\* DATA_DIR is made or a file is fetched or written; the branch raising
\* 'dataset ... not found' is reached for no input.
C10_LookupFirst ==
    RanGet
    => /\ "not_found" \notin call.steps
       /\ "lookup" \in call.steps
       /\ call.dataset \notin DATASET_LINKS =>
             /\ call.exc = "KeyError:dataset"
             /\ call.steps = {"lookup"}
             /\ call.wrote = {}
             /\ dataDir = call.entry.dir

C10_Witness ==
    /\ call.op = "get"
    /\ call.dataset \in OTHER_DATASETS
    /\ call.exc = "KeyError:dataset"
    /\ ~dataDir

====
